---- MODULE Spec2Model ----
(***************************************************************************)
(* Model of ipv6thing (src/ipv6thing/__init__.py): the address tokenizer   *)
(* and parser, the Address value type and its formatter, and Network with  *)
(* its iterable and iterator.                                              *)
(*                                                                         *)
(* Python integers are unbounded.  They are modelled exactly, as a sign    *)
(* and a magnitude held in 16-bit limbs (least significant limb first, no  *)
(* leading zero limb), so that 128-bit addresses, the results that leave   *)
(* the 128-bit range and negative values are all represented without       *)
(* scaling.  Text is a sequence of one-character strings.                  *)
(***************************************************************************)
EXTENDS Integers, Sequences, FiniteSets, TLC

VARIABLES
    call,      \* the library call made last: a record [op |-> ..., ...arguments]
    result,    \* its outcome: Ok(value) or Raise(exception, message)
    it,        \* the live _NetworkIterator: [cur, stop, step], or NoIterator
    yielded,   \* the addresses __next__ has returned on this iterator, in order
    nexts      \* the number of __next__ calls made on this iterator

vars == <<call, result, it, yielded, nexts>>

----------------------------------------------------------------------------
(* Python int: unbounded integers in 16-bit limbs                          *)

LimbBits == 16
LimbBase == 2 ^ LimbBits

Max2(a, b) == IF a >= b THEN a ELSE b

RECURSIVE MagNorm(_)
MagNorm(m) ==
    IF m = <<>> THEN <<>>
    ELSE IF m[Len(m)] = 0 THEN MagNorm(SubSeq(m, 1, Len(m) - 1))
    ELSE m

MagLimb(m, i) == IF i >= 1 /\ i <= Len(m) THEN m[i] ELSE 0

RECURSIVE MagAddC(_, _, _, _)
MagAddC(a, b, i, carry) ==
    IF i > Max2(Len(a), Len(b))
    THEN (IF carry = 0 THEN <<>> ELSE <<carry>>)
    ELSE LET s == MagLimb(a, i) + MagLimb(b, i) + carry
         IN  <<s % LimbBase>> \o MagAddC(a, b, i + 1, s \div LimbBase)

MagAdd(a, b) == MagAddC(a, b, 1, 0)

RECURSIVE MagSubB(_, _, _, _)
MagSubB(a, b, i, borrow) ==
    IF i > Len(a) THEN <<>>
    ELSE LET d == MagLimb(a, i) - MagLimb(b, i) - borrow
         IN  IF d < 0
             THEN <<d + LimbBase>> \o MagSubB(a, b, i + 1, 1)
             ELSE <<d>> \o MagSubB(a, b, i + 1, 0)

\* a - b for magnitudes with a >= b
MagSub(a, b) == MagNorm(MagSubB(a, b, 1, 0))

RECURSIVE MagCmpFrom(_, _, _)
MagCmpFrom(a, b, i) ==
    IF i = 0 THEN 0
    ELSE IF a[i] < b[i] THEN -1
    ELSE IF a[i] > b[i] THEN 1
    ELSE MagCmpFrom(a, b, i - 1)

\* -1, 0 or 1 as a < b, a = b, a > b
MagCmp(a, b) ==
    IF Len(a) < Len(b) THEN -1
    ELSE IF Len(a) > Len(b) THEN 1
    ELSE MagCmpFrom(a, b, Len(a))

RECURSIVE LimbAnd(_, _)
LimbAnd(x, y) ==
    IF x = 0 \/ y = 0 THEN 0
    ELSE (x % 2) * (y % 2) + 2 * LimbAnd(x \div 2, y \div 2)

RECURSIVE LimbOr(_, _)
LimbOr(x, y) ==
    IF x = 0 THEN y
    ELSE IF y = 0 THEN x
    ELSE Max2(x % 2, y % 2) + 2 * LimbOr(x \div 2, y \div 2)

RECURSIVE LimbXor(_, _)
LimbXor(x, y) ==
    IF x = 0 THEN y
    ELSE IF y = 0 THEN x
    ELSE ((x + y) % 2) + 2 * LimbXor(x \div 2, y \div 2)

\* m * 2^n, n >= 0
MagShl(m, n) ==
    LET limbs == n \div LimbBits
        bits  == n % LimbBits
        lowpart(i)  == (MagLimb(m, i) * (2 ^ bits)) % LimbBase
        highpart(i) == MagLimb(m, i) \div (2 ^ (LimbBits - bits))
        shifted == [i \in 1..(Len(m) + 1) |-> lowpart(i) + highpart(i - 1)]
    IN  IF m = <<>> THEN <<>>
        ELSE [i \in 1..limbs |-> 0] \o MagNorm(shifted)

\* m div 2^n, n >= 0
MagShr(m, n) ==
    LET limbs == n \div LimbBits
        bits  == n % LimbBits
        rest  == IF limbs >= Len(m) THEN <<>> ELSE SubSeq(m, limbs + 1, Len(m))
        part(i) == (MagLimb(rest, i) \div (2 ^ bits))
                   + (MagLimb(rest, i + 1) % (2 ^ bits)) * (2 ^ (LimbBits - bits))
    IN  MagNorm([i \in 1..Len(rest) |-> part(i)])

\* the Python int n, for a TLA+ integer n
RECURSIVE MagOf(_)
MagOf(n) == IF n = 0 THEN <<>> ELSE <<n % LimbBase>> \o MagOf(n \div LimbBase)

Z(n) == IF n < 0 THEN [neg |-> TRUE, mag |-> MagOf(-n)]
                 ELSE [neg |-> FALSE, mag |-> MagOf(n)]

MkInt(neg, mag) == [neg |-> neg /\ mag # <<>>, mag |-> mag]

IntNeg(x) == MkInt(~x.neg, x.mag)

IntAdd(x, y) ==
    IF x.neg = y.neg THEN MkInt(x.neg, MagAdd(x.mag, y.mag))
    ELSE IF MagCmp(x.mag, y.mag) >= 0
         THEN MkInt(x.neg, MagSub(x.mag, y.mag))
         ELSE MkInt(y.neg, MagSub(y.mag, x.mag))

IntSub(x, y) == IntAdd(x, IntNeg(y))

\* -1, 0 or 1 as x < y, x = y, x > y
IntCmp(x, y) ==
    IF x.neg /\ ~y.neg THEN -1
    ELSE IF ~x.neg /\ y.neg THEN 1
    ELSE IF x.neg THEN MagCmp(y.mag, x.mag)
    ELSE MagCmp(x.mag, y.mag)

IntLt(x, y) == IntCmp(x, y) < 0
IntLe(x, y) == IntCmp(x, y) <= 0
IntGe(x, y) == IntCmp(x, y) >= 0

\* Python reads the operands of &, | and ^ in two's complement, the sign bit
\* repeated without end.  A negative x is ~m, that is -(m + 1), for the
\* magnitude m = -x - 1.
InvMag(x) == MagSub(x.mag, <<1>>)
IntOfInv(m) == MkInt(TRUE, MagAdd(m, <<1>>))

\* limb i of x in two's complement
TcLimb(x, i) ==
    IF x.neg THEN LimbBase - 1 - MagLimb(InvMag(x), i) ELSE MagLimb(x.mag, i)

\* the int with the sign neg and the two's complement limbs
FromTc(neg, limbs) ==
    IF neg
    THEN IntOfInv(MagNorm([i \in 1..Len(limbs) |-> LimbBase - 1 - limbs[i]]))
    ELSE MkInt(FALSE, MagNorm(limbs))

\* x & y, x | y, x ^ y on ints of either sign
IntAnd(x, y) ==
    FromTc(x.neg /\ y.neg,
           [i \in 1..Max2(Len(x.mag), Len(y.mag)) |->
                LimbAnd(TcLimb(x, i), TcLimb(y, i))])

IntOr(x, y) ==
    FromTc(x.neg \/ y.neg,
           [i \in 1..Max2(Len(x.mag), Len(y.mag)) |->
                LimbOr(TcLimb(x, i), TcLimb(y, i))])

IntXor(x, y) ==
    FromTc(x.neg # y.neg,
           [i \in 1..Max2(Len(x.mag), Len(y.mag)) |->
                LimbXor(TcLimb(x, i), TcLimb(y, i))])

\* x << n and x >> n for n >= 0; >> rounds towards minus infinity
IntShl(x, n) == MkInt(x.neg, MagShl(x.mag, n))
IntShr(x, n) ==
    IF x.neg THEN IntOfInv(MagShr(InvMag(x), n)) ELSE MkInt(FALSE, MagShr(x.mag, n))

\* the value of a Python int known to fit a TLA+ integer
RECURSIVE MagVal(_)
MagVal(m) == IF m = <<>> THEN 0 ELSE m[1] + LimbBase * MagVal(Tail(m))

IntVal(x) == IF x.neg THEN 0 - MagVal(x.mag) ELSE MagVal(x.mag)

----------------------------------------------------------------------------
(* Outcomes of a call                                                      *)

Ok(v) == [ok |-> TRUE, val |-> v, exc |-> "", msg |-> ""]
Raise(e, m) == [ok |-> FALSE, val |-> <<>>, exc |-> e, msg |-> m]

----------------------------------------------------------------------------
(* Characters                                                              *)

Digits == {"0", "1", "2", "3", "4", "5", "6", "7", "8", "9"}
LowerHexDigits == <<"0", "1", "2", "3", "4", "5", "6", "7", "8", "9",
                    "a", "b", "c", "d", "e", "f">>
UpperHexDigits == <<"0", "1", "2", "3", "4", "5", "6", "7", "8", "9",
                    "A", "B", "C", "D", "E", "F">>
Letters == {"a", "b", "c", "d", "e", "f", "g", "h", "i", "j", "k", "l", "m",
            "n", "o", "p", "q", "r", "s", "t", "u", "v", "w", "x", "y", "z",
            "A", "B", "C", "D", "E", "F", "G", "H", "I", "J", "K", "L", "M",
            "N", "O", "P", "Q", "R", "S", "T", "U", "V", "W", "X", "Y", "Z"}
\* [0-9a-zA-Z]
AlnumChars == Digits \cup Letters
HexChars == {LowerHexDigits[i] : i \in 1..16} \cup {UpperHexDigits[i] : i \in 1..16}

HexDigitVal(c) ==
    (CHOOSE i \in 1..16 : LowerHexDigits[i] = c \/ UpperHexDigits[i] = c) - 1

\* int(text, base=16) and int(text, base=10) on a text of valid digits
RECURSIVE HexVal(_)
HexVal(text) ==
    IF text = <<>> THEN 0
    ELSE 16 * HexVal(SubSeq(text, 1, Len(text) - 1)) + HexDigitVal(text[Len(text)])

RECURSIVE DecVal(_)
DecVal(text) ==
    IF text = <<>> THEN 0
    ELSE 10 * DecVal(SubSeq(text, 1, Len(text) - 1)) + HexDigitVal(text[Len(text)])

\* int(text, base=16) on a text of [0-9a-zA-Z]: the digits may follow a 0x or
\* 0X prefix, and there is at least one digit
Base16Digits(text) ==
    IF Len(text) >= 2 /\ text[1] = "0" /\ text[2] \in {"x", "X"}
    THEN SubSeq(text, 3, Len(text))
    ELSE text

IsBase16Literal(text) ==
    /\ Base16Digits(text) # <<>>
    /\ \A i \in 1..Len(Base16Digits(text)) : Base16Digits(text)[i] \in HexChars

IntBase16(text) == HexVal(Base16Digits(text))

----------------------------------------------------------------------------
(* _ADDR_TOKEN_PATTERN.match(addr, str_pos).  Positions are 1-based: the   *)
(* model's str_pos is the source's str_pos + 1.                            *)

\* the position after the longest run of characters of S that starts at pos
RECURSIVE RunEnd(_, _, _)
RunEnd(addr, pos, S) ==
    IF pos <= Len(addr) /\ addr[pos] \in S THEN RunEnd(addr, pos + 1, S) ELSE pos

\* the position after the longest run of characters other than newline
RECURSIVE LineEnd(_, _)
LineEnd(addr, pos) ==
    IF pos <= Len(addr) /\ addr[pos] # "\n" THEN LineEnd(addr, pos + 1) ELSE pos

Token(kind, addr, from, end) ==
    [kind |-> kind, text |-> SubSeq(addr, from, end - 1), end |-> end]

\* the alternatives of the pattern, tried in its order; kind "none" when
\* nothing matches (end of the text, or a newline)
ADDR_TOKEN_PATTERN(addr, pos) ==
    IF pos > Len(addr) THEN Token("none", addr, pos, pos)
    ELSE IF addr[pos] \in AlnumChars
         THEN Token("num", addr, pos, RunEnd(addr, pos, AlnumChars))
    ELSE IF addr[pos] = ":" /\ pos + 1 <= Len(addr) /\ addr[pos + 1] = ":"
         THEN Token("skip", addr, pos, pos + 2)
    ELSE IF addr[pos] = ":"
         THEN Token("sep", addr, pos, pos + 1)
    ELSE IF addr[pos] = "/" /\ pos + 1 <= Len(addr) /\ addr[pos + 1] \in Digits
         THEN Token("prefixlen", addr, pos + 1, RunEnd(addr, pos + 1, Digits))
    ELSE IF addr[pos] # "\n"
         THEN Token("unknown", addr, pos, LineEnd(addr, pos))
    ELSE Token("none", addr, pos, pos)

----------------------------------------------------------------------------
(* _parse_address                                                          *)

\* prefix_len is None or an int: <<>> or <<n>>
NoPrefixLen == <<>>

ParseStart ==
    [str_pos |-> 1, cur_part |-> 0, did_skip |-> FALSE,
     lo |-> Z(0), hi |-> Z(0), prefix_len |-> NoPrefixLen]

\* the loop body with a repeated '::' let through
ParseToken_RepeatedSkipAllowed(st, tok) ==
    IF st.prefix_len # NoPrefixLen
    THEN Raise("ValueError", "nothing is allowed after the prefix length of the address")
    ELSE IF tok.kind = "num" THEN
        IF Len(tok.text) > 4
        THEN Raise("ValueError", "hextet must be 4 digits or less")
        ELSE IF ~IsBase16Literal(tok.text)
        THEN Raise("ValueError", "invalid literal for int() with base 16")
        ELSE IF st.did_skip
        THEN Ok([st EXCEPT !.lo = IntOr(IntShl(st.lo, 16), Z(IntBase16(tok.text))),
                           !.cur_part = st.cur_part + 1,
                           !.str_pos = tok.end])
        ELSE IF (7 - st.cur_part) * 16 < 0
        THEN Raise("ValueError", "negative shift count")
        ELSE Ok([st EXCEPT !.hi = IntOr(st.hi, IntShl(Z(IntBase16(tok.text)),
                                                      (7 - st.cur_part) * 16)),
                           !.cur_part = st.cur_part + 1,
                           !.str_pos = tok.end])
    ELSE IF tok.kind = "skip" THEN
        Ok([st EXCEPT !.did_skip = TRUE, !.str_pos = tok.end])
    ELSE IF tok.kind = "sep" THEN
        Ok([st EXCEPT !.str_pos = tok.end])
    ELSE IF tok.kind = "prefixlen" THEN
        Ok([st EXCEPT !.prefix_len = <<DecVal(tok.text)>>, !.str_pos = tok.end])
    ELSE Raise("ValueError", "address parser unable to parse")

\* the body of the while loop for one token: the next parser state, or the
\* exception raised
ParseToken(st, tok) ==
    IF st.prefix_len # NoPrefixLen
    THEN Raise("ValueError", "nothing is allowed after the prefix length of the address")
    ELSE IF tok.kind = "num" THEN
        IF Len(tok.text) > 4
        THEN Raise("ValueError", "hextet must be 4 digits or less")
        ELSE IF ~IsBase16Literal(tok.text)
        THEN Raise("ValueError", "invalid literal for int() with base 16")
        ELSE IF st.did_skip
        THEN Ok([st EXCEPT !.lo = IntOr(IntShl(st.lo, 16), Z(IntBase16(tok.text))),
                           !.cur_part = st.cur_part + 1,
                           !.str_pos = tok.end])
        ELSE IF (7 - st.cur_part) * 16 < 0
        THEN Raise("ValueError", "negative shift count")
        ELSE Ok([st EXCEPT !.hi = IntOr(st.hi, IntShl(Z(IntBase16(tok.text)),
                                                      (7 - st.cur_part) * 16)),
                           !.cur_part = st.cur_part + 1,
                           !.str_pos = tok.end])
    ELSE IF tok.kind = "skip" THEN
        IF st.did_skip
        THEN Raise("ValueError", "address can only have one '::'")
        ELSE Ok([st EXCEPT !.did_skip = TRUE, !.str_pos = tok.end])
    ELSE IF tok.kind = "sep" THEN
        Ok([st EXCEPT !.str_pos = tok.end])
    ELSE IF tok.kind = "prefixlen" THEN
        Ok([st EXCEPT !.prefix_len = <<DecVal(tok.text)>>, !.str_pos = tok.end])
    ELSE Raise("ValueError", "address parser unable to parse")

\* the while loop: the parser state when no further token matches, or the
\* exception raised on the way
RECURSIVE ParseLoop(_, _)
ParseLoop(addr, st) ==
    LET tok == ADDR_TOKEN_PATTERN(addr, st.str_pos)
    IN  IF tok.kind = "none" THEN Ok(st)
        ELSE LET r == ParseToken(st, tok)
             IN  IF r.ok THEN ParseLoop(addr, r.val) ELSE r

\* returns the int lo | hi, or the pair <<lo | hi, prefix_len>> with allow_prefix
parse_address(addr, allow_prefix, require_prefix) ==
    LET r == ParseLoop(addr, ParseStart)
    IN  IF ~r.ok THEN r
        ELSE IF require_prefix /\ r.val.prefix_len = NoPrefixLen
        THEN Raise("ValueError", "no prefix length specified")
        ELSE IF allow_prefix
        THEN Ok(<<IntOr(r.val.lo, r.val.hi), r.val.prefix_len>>)
        ELSE Ok(IntOr(r.val.lo, r.val.hi))

----------------------------------------------------------------------------
(* Address: an Address object is modelled by its _addr                     *)

MIN_IPV6_ADDR_VAL == Z(0)
MAX_IPV6_ADDR_VAL == [neg |-> FALSE, mag |-> [i \in 1..8 |-> 65535]]

\* the range check without its upper limit
AddressRangeCheck_NoUpperLimit(addr) ==
    IF ~IntLe(MIN_IPV6_ADDR_VAL, addr)
    THEN Raise("ValueError", "address out of range")
    ELSE Ok(addr)

\* the range check that ends Address.__init__
AddressRangeCheck(addr) ==
    IF ~(IntLe(MIN_IPV6_ADDR_VAL, addr) /\ IntLe(addr, MAX_IPV6_ADDR_VAL))
    THEN Raise("ValueError", "address out of range")
    ELSE Ok(addr)

\* Address(addr) for an int
AddressOfInt(addr) == AddressRangeCheck(addr)

\* Address(addr) for a str
AddressOfStr(addr) ==
    LET r == parse_address(addr, FALSE, FALSE)
    IN  IF r.ok THEN AddressRangeCheck(r.val) ELSE r

\* Address.__add__, Address.__sub__, Address.__and__, Address.__or__
AddressAdd(self, other) == AddressOfInt(IntAdd(self, other))
AddressSub(self, other) == AddressOfInt(IntSub(self, other))
AddressAnd(self, rhs) == AddressOfInt(IntAnd(self, rhs))
AddressOr(self, rhs) == AddressOfInt(IntOr(self, rhs))

----------------------------------------------------------------------------
(* _parse_format_spec and Address.__format__                               *)

\* _AddressFormatSpecOption: the compress and pad members of each option
\* character; "" stands for None
FormatSpecChars == {"s", "l", "c", "e", "p", "t"}

OptCompress(char) ==
    IF char \in {"s", "c"} THEN "COMPRESS"
    ELSE IF char \in {"l", "e"} THEN "EXPAND"
    ELSE ""

OptPad(char) ==
    IF char \in {"l", "p"} THEN "PAD"
    ELSE IF char \in {"s", "t"} THEN "TRIM"
    ELSE ""

\* the for loop over the characters of spec, from character i on
RECURSIVE FormatSpecLoop(_, _, _, _)
FormatSpecLoop(spec, i, compress, pad) ==
    IF i > Len(spec) THEN Ok([compress |-> compress, pad |-> pad])
    ELSE IF spec[i] \notin FormatSpecChars
    THEN Raise("ValueError", "is not a valid _AddressFormatSpecOption")
    ELSE FormatSpecLoop(spec, i + 1,
            IF OptCompress(spec[i]) # "" THEN OptCompress(spec[i]) ELSE compress,
            IF OptPad(spec[i]) # "" THEN OptPad(spec[i]) ELSE pad)

parse_format_spec(spec) ==
    LET r == FormatSpecLoop(spec, 1, "", "")
    IN  IF ~r.ok THEN r
        ELSE Ok([compress |-> IF r.val.compress = "" THEN "COMPRESS" ELSE r.val.compress,
                 pad      |-> IF r.val.pad = "" THEN "TRIM" ELSE r.val.pad])

\* list((self._addr >> ofs) & 0xFFFF for ofs in range(7*16, -1, -16));
\* the hextet of the source's index idx is Hextets(addr)[idx + 1]
Hextets(addr) ==
    [i \in 1..8 |-> IntVal(IntAnd(IntShr(addr, 7 * 16 - 16 * (i - 1)), Z(65535)))]

\* f'{hextet:x}'
RECURSIVE HexText(_)
HexText(n) ==
    IF n < 16 THEN <<LowerHexDigits[n + 1]>>
    ELSE HexText(n \div 16) \o <<LowerHexDigits[(n % 16) + 1]>>

\* f'{hextet:04x}'
RECURSIVE ZeroFill(_, _)
ZeroFill(text, width) ==
    IF Len(text) >= width THEN text ELSE ZeroFill(<<"0">> \o text, width)

HexText04(n) == ZeroFill(HexText(n), 4)

\* longest_section is None or a pair: <<>> or <<start, end>>
SectionStart ==
    [longest_section |-> <<>>, longest_section_len |-> -99,
     cur_section_start |-> 0, cur_section_end |-> 0,
     prev_hextet |-> -1, first_section |-> TRUE]

\* the body of the zero-run scan for index idx holding hextet
SectionStep(hextets, st, idx, hextet) ==
    IF hextet = st.prev_hextet \/ (st.first_section /\ hextet = hextets[1])
    THEN [st EXCEPT !.cur_section_end = idx, !.prev_hextet = hextet]
    ELSE LET section_len == st.cur_section_end - st.cur_section_start
             found == st.prev_hextet = 0 /\ section_len > st.longest_section_len
         IN  [st EXCEPT
                !.longest_section =
                    IF found THEN <<st.cur_section_start, st.cur_section_end>> ELSE @,
                !.longest_section_len = IF found THEN section_len ELSE @,
                !.cur_section_start = idx,
                !.first_section = FALSE,
                !.prev_hextet = hextet]

\* for idx, hextet in enumerate(itertools.chain(hextets, [-1])), from idx on
RECURSIVE SectionLoop(_, _, _)
SectionLoop(hextets, st, idx) ==
    IF idx > 8 THEN st
    ELSE SectionLoop(hextets,
                     SectionStep(hextets, st, idx,
                                 IF idx < 8 THEN hextets[idx + 1] ELSE -1),
                     idx + 1)

\* compress_section: <<-1, -1>> unless compressing found a zero section
CompressSection(hextets, compress) ==
    IF compress = "COMPRESS"
    THEN LET st == SectionLoop(hextets, SectionStart, 0)
         IN  IF st.longest_section # <<>> THEN st.longest_section ELSE <<-1, -1>>
    ELSE <<-1, -1>>

\* the rendering loop writing ':' where the compressed section starts
RECURSIVE RenderLoop_SingleColon(_, _, _, _, _, _)
RenderLoop_SingleColon(hextets, compress_section, pad, idx, ret, hextet_before) ==
    IF idx > 7 THEN ret
    ELSE IF compress_section[1] <= idx /\ idx <= compress_section[2]
    THEN RenderLoop_SingleColon(hextets, compress_section, pad, idx + 1,
                    IF compress_section[1] = idx THEN ret \o <<":">> ELSE ret,
                    FALSE)
    ELSE RenderLoop_SingleColon(hextets, compress_section, pad, idx + 1,
                    (IF hextet_before THEN ret \o <<":">> ELSE ret)
                      \o (IF pad = "PAD" THEN HexText04(hextets[idx + 1])
                                         ELSE HexText(hextets[idx + 1])),
                    TRUE)

\* the rendering loop, from idx on, with ret and hextet_before so far
RECURSIVE RenderLoop(_, _, _, _, _, _)
RenderLoop(hextets, compress_section, pad, idx, ret, hextet_before) ==
    IF idx > 7 THEN ret
    ELSE IF compress_section[1] <= idx /\ idx <= compress_section[2]
    THEN RenderLoop(hextets, compress_section, pad, idx + 1,
                    IF compress_section[1] = idx THEN ret \o <<":", ":">> ELSE ret,
                    FALSE)
    ELSE RenderLoop(hextets, compress_section, pad, idx + 1,
                    (IF hextet_before THEN ret \o <<":">> ELSE ret)
                      \o (IF pad = "PAD" THEN HexText04(hextets[idx + 1])
                                         ELSE HexText(hextets[idx + 1])),
                    TRUE)

\* Address.__format__
AddressFormat(self, format_spec) ==
    LET m == parse_format_spec(format_spec)
    IN  IF ~m.ok THEN m
        ELSE Ok(RenderLoop(Hextets(self),
                           CompressSection(Hextets(self), m.val.compress),
                           m.val.pad, 0, <<>>, FALSE))

----------------------------------------------------------------------------
(* Network: [addr |-> the base Address, prefix_len |-> an int].  The model *)
(* covers prefix lengths 0..128; outside them the shifts below raise or    *)
(* leave the 128-bit range.                                                *)

\* Network(addr, prefix_len) for an int or an Address addr
NetworkOf(addr, prefix_len) ==
    LET a == AddressOfInt(addr)
    IN  IF a.ok THEN Ok([addr |-> a.val, prefix_len |-> prefix_len]) ELSE a

\* Network(addr) for a str
NetworkOfStr(addr) ==
    LET r == parse_address(addr, TRUE, TRUE)
    IN  IF ~r.ok THEN r
        ELSE LET a == AddressOfInt(r.val[1])
             IN  IF a.ok THEN Ok([addr |-> a.val, prefix_len |-> r.val[2][1]]) ELSE a

\* Network.prefix_mask
prefix_mask(self) ==
    IntXor(IntSub(IntShl(Z(1), 128), Z(1)),
           IntSub(IntShl(Z(1), self.prefix_len), Z(1)))

base_address(self) == self.addr

\* Network._max_idx
max_idx(self) == IntSub(IntShl(Z(1), 128 - self.prefix_len), Z(1))

\* Network.num_addresses
num_addresses(self) == IntShl(Z(1), 128 - self.prefix_len)

\* Network.__getitem__ for an int k
NetworkGetItem(self, k) ==
    IF IntLt(Z(0), k) /\ IntLt(k, max_idx(self))
    THEN Raise("IndexError", "")
    ELSE AddressAdd(base_address(self), k)

\* Network.__contains__ for an Address item
NetworkContains(self, item) ==
    LET masked == AddressAnd(item, prefix_mask(self))
    IN  IF masked.ok THEN Ok(masked.val = base_address(self)) ELSE masked

\* _NetworkIterator.__init__
NetworkIterator(start, stop, step) == [cur |-> start, stop |-> stop, step |-> step]

\* the iterator of Network.__iter__ with its stop one too low
NetworkIter_StopAtMaxIdx(self) ==
    NetworkIterator(base_address(self),
                    IntAdd(base_address(self), max_idx(self)),
                    Z(1))

\* Network.__iter__
NetworkIter(self) ==
    NetworkIterator(base_address(self),
                    IntAdd(IntAdd(base_address(self), max_idx(self)), Z(1)),
                    Z(1))

\* a component of a slice: None, an int, an Address, or a value of another
\* type, here a str
SliceNone == [kind |-> "None", val |-> Z(0)]
SliceInt(n) == [kind |-> "int", val |-> n]
SliceAddress(a) == [kind |-> "Address", val |-> a]
SliceStr(s) == [kind |-> "str", val |-> s]

\* TypeError(unexpected); its message is the text of str(unexpected)
UnexpectedType(c) ==
    Raise("TypeError",
          IF c.kind = "Address" THEN AddressFormat(c.val, <<"s">>).val ELSE c.val)

\* _NetworkIterable.__iter__ for the slice start:stop:step
NetworkIterableIter(net, slice) ==
    LET start == IF slice.start.kind = "int"
                 THEN Ok(IntAdd(slice.start.val, base_address(net)))
                 ELSE IF slice.start.kind = "Address" THEN Ok(slice.start.val)
                 ELSE IF slice.start.kind = "None" THEN Ok(base_address(net))
                 ELSE UnexpectedType(slice.start)
        stop  == IF slice.stop.kind = "int"
                 THEN Ok(IntAdd(slice.stop.val, base_address(net)))
                 ELSE IF slice.stop.kind = "Address" THEN Ok(slice.stop.val)
                 ELSE IF slice.stop.kind = "None"
                 THEN Ok(IntAdd(IntAdd(base_address(net), max_idx(net)), Z(1)))
                 ELSE UnexpectedType(slice.stop)
        step  == IF slice.step.kind = "int" THEN Ok(slice.step.val)
                 ELSE IF slice.step.kind = "None" THEN Ok(Z(1))
                 ELSE UnexpectedType(slice.step)
    IN  IF ~start.ok THEN start
        ELSE IF ~stop.ok THEN stop
        ELSE IF ~step.ok THEN step
        ELSE IF step.val = Z(0) THEN Raise("Exception", "step cannot be 0")
        ELSE IF IntLt(step.val, Z(0))
        THEN Ok(NetworkIterator(IntSub(stop.val, Z(1)), IntSub(start.val, Z(1)),
                                step.val))
        ELSE Ok(NetworkIterator(start.val, stop.val, step.val))

\* _NetworkIterator.__next__: the iterator afterwards and the outcome
IteratorNext(self) ==
    LET ret == self.cur
    IN  IF IntGe(ret, self.stop)
        THEN [self |-> self, out |-> Raise("StopIteration", "")]
        ELSE [self |-> [self EXCEPT !.cur = IntAdd(self.cur, self.step)],
              out  |-> AddressOfInt(ret)]

----------------------------------------------------------------------------
(* Inputs                                                                  *)

MaxPieces == 4      \* pieces concatenated into an input text
MaxGroups == 9      \* hex groups in a generated address text
MaxDelta == 2       \* small deltas and indexes range over -MaxDelta..MaxDelta
MaxHostBits == 2    \* iterated networks have prefix lengths 128-MaxHostBits..128
MaxSliceOff == 3    \* slice offsets range over 0..MaxSliceOff

\* the int whose hextets, most significant first, are h
IntOfHextets(h) == MkInt(FALSE, MagNorm([i \in 1..8 |-> h[9 - i]]))

RECURSIVE Concat(_)
Concat(ss) == IF ss = <<>> THEN <<>> ELSE Head(ss) \o Concat(Tail(ss))

Pieces ==
    {<<"1">>, <<"F">>, <<"g">>, <<"a", "b", "c", "d", "e">>,
     <<":">>, <<":", ":">>, <<"/">>, <<"\n">>}

PieceTexts ==
    {Concat(ps) : ps \in UNION {[1..n -> Pieces] : n \in 0..MaxPieces}}

\* the groups gs written in lower-case hex without leading zeros, ":" between
RECURSIVE JoinGroups(_)
JoinGroups(gs) ==
    IF gs = <<>> THEN <<>>
    ELSE IF Len(gs) = 1 THEN HexText(gs[1])
    ELSE HexText(gs[1]) \o <<":">> \o JoinGroups(Tail(gs))

GroupVals == {0, 1}

GroupTexts ==
    UNION {
        UNION { {JoinGroups(pre) \o <<":", ":">> \o JoinGroups(post) :
                    pre \in [1..h -> GroupVals], post \in [1..l -> GroupVals]}
                : l \in 0..(MaxGroups - h) }
        \cup {JoinGroups(pre) : pre \in [1..h -> GroupVals]}
        : h \in 0..MaxGroups }

\* texts with a group that starts with 0x or 0X
PrefixedGroups ==
    {<<"0", "x", "1">>, <<"0", "X", "1", "f">>, <<"0", "x">>, <<"0", "X">>,
     <<"0", "x", "g">>, <<"1", "0", "x", "1">>, <<"0", "x", "1", "2", "3">>}

PrefixedTexts ==
    {pre \o g \o post :
        pre \in {<<>>, <<":", ":">>, <<"1", ":">>},
        g \in PrefixedGroups,
        post \in {<<>>, <<":", ":">>, <<":", "1">>, <<"/", "1">>,
                  <<":", ":", "/", "6", "4">>, <<":", ":", ":", ":">>}}

Texts == PieceTexts \cup GroupTexts \cup PrefixedTexts

AddrMax == MAX_IPV6_ADDR_VAL
Pow2Int(n) == IntShl(Z(1), n)

\* addresses near both ends of the range and inside it
SampleAddrs ==
    {Z(0), Z(1), Z(2), Z(3), Z(65535), Z(65536), Pow2Int(64), Pow2Int(127),
     IntSub(AddrMax, Z(3)), IntSub(AddrMax, Z(1)), AddrMax,
     IntOfHextets(<<8193, 3512, 0, 0, 0, 0, 0, 0>>),
     IntOfHextets(<<8193, 3512, 0, 0, 8, 2048, 8204, 16762>>),
     IntOfHextets(<<8193, 3512, 0, 0, 0, 0, 0, 5>>),
     IntOfHextets(<<8193, 3513, 0, 0, 0, 0, 0, 0>>)}

SmallInts == {Z(d) : d \in (0 - MaxDelta - 1)..(MaxDelta + 1)}

Deltas ==
    SmallInts \cup {Pow2Int(64), IntNeg(Pow2Int(64)), AddrMax, IntNeg(AddrMax),
                    Pow2Int(128), IntNeg(Pow2Int(128))}

\* addresses to format: every pattern of zero and non-zero hextets
FormatAddrs ==
    {IntOfHextets(h) : h \in [1..8 -> GroupVals]}
    \cup {AddrMax,
          IntOfHextets(<<8193, 3512, 0, 0, 8, 2048, 8204, 16762>>),
          IntOfHextets(<<43981, 0, 0, 16, 0, 0, 0, 256>>)}

FormatSpecs ==
    {<<>>, <<"s">>, <<"l">>, <<"c">>, <<"e">>, <<"p">>, <<"t">>,
     <<"p", "c">>, <<"t", "c">>, <<"p", "e">>, <<"t", "e">>,
     <<"s", "l">>, <<"x">>}

PrefixLens == {0, 1, 16, 32, 48, 64, 96, 112, 126, 127, 128}

Nets == {NetworkOf(a, p).val : a \in SampleAddrs, p \in PrefixLens}

Indexes ==
    SmallInts \cup {Z(4), Z(5), Pow2Int(64), IntSub(Pow2Int(64), Z(1)),
                    AddrMax, Pow2Int(128)}

\* networks small enough to iterate to the end
IterNets ==
    {NetworkOf(a, 128 - b).val :
        a \in {Z(0), Pow2Int(64), IntSub(AddrMax, Z(3)), AddrMax},
        b \in 0..MaxHostBits}

MaxNexts == 2 ^ MaxHostBits + 2

SliceBounds(net) ==
    {SliceNone, SliceStr(<<"1">>)}
    \cup {SliceInt(Z(k)) : k \in 0..MaxSliceOff}
    \cup {SliceAddress(IntAdd(net.addr, Z(k))) :
            k \in {j \in {0, 2} : IntLe(IntAdd(net.addr, Z(j)), AddrMax)}}

SliceSteps ==
    {SliceNone, SliceAddress(Z(1)), SliceStr(<<"1">>)}
    \cup {SliceInt(Z(k)) : k \in -2..2}

----------------------------------------------------------------------------
(* The client makes one call on freshly drawn arguments and holds its      *)
(* outcome; a call that returns an iterator is followed by calls of        *)
(* __next__ on that iterator.  The values are immutable, so calls do not   *)
(* affect one another and each behaviour follows a single call.            *)

NoIterator == NetworkIterator(Z(0), Z(0), Z(0))

Init ==
    /\ call = [op |-> "none"]
    /\ result = Ok(<<>>)
    /\ it = NoIterator
    /\ yielded = <<>>
    /\ nexts = 0

Idle == call.op = "none"

\* Address(text)
AddressParse ==
    /\ Idle
    /\ \E text \in Texts :
        /\ call' = [op |-> "Address.parse", text |-> text]
        /\ result' = AddressOfStr(text)
    /\ UNCHANGED <<it, yielded, nexts>>

\* Network(text)
NetworkParse ==
    /\ Idle
    /\ \E text \in PieceTexts \cup PrefixedTexts :
        /\ call' = [op |-> "Network.parse", text |-> text]
        /\ result' = NetworkOfStr(text)
    /\ UNCHANGED <<it, yielded, nexts>>

\* a + d
AddressAddCall ==
    /\ Idle
    /\ \E a \in SampleAddrs, d \in Deltas :
        /\ call' = [op |-> "Address.add", a |-> a, d |-> d]
        /\ result' = AddressAdd(a, d)
    /\ UNCHANGED <<it, yielded, nexts>>

\* a - d
AddressSubCall ==
    /\ Idle
    /\ \E a \in SampleAddrs, d \in Deltas :
        /\ call' = [op |-> "Address.subtract", a |-> a, d |-> d]
        /\ result' = AddressSub(a, d)
    /\ UNCHANGED <<it, yielded, nexts>>

\* format(a, spec)
AddressFormatCall ==
    /\ Idle
    /\ \E a \in FormatAddrs, spec \in FormatSpecs :
        /\ call' = [op |-> "Address.format", a |-> a, spec |-> spec]
        /\ result' = AddressFormat(a, spec)
    /\ UNCHANGED <<it, yielded, nexts>>

\* format(Address(text), 's')
ParseThenFormat ==
    /\ Idle
    /\ \E text \in Texts :
        /\ call' = [op |-> "Address.parse.format", text |-> text]
        /\ result' = LET a == AddressOfStr(text)
                     IN  IF a.ok THEN AddressFormat(a.val, <<"s">>) ELSE a
    /\ UNCHANGED <<it, yielded, nexts>>

\* Address(format(a, spec))
FormatThenParse ==
    /\ Idle
    /\ \E a \in FormatAddrs \cup SampleAddrs, spec \in FormatSpecs :
        /\ call' = [op |-> "Address.format.parse", a |-> a, spec |-> spec]
        /\ result' = LET text == AddressFormat(a, spec)
                     IN  IF text.ok THEN AddressOfStr(text.val) ELSE text
    /\ UNCHANGED <<it, yielded, nexts>>

\* a in net
NetworkContainsCall ==
    /\ Idle
    /\ \E net \in Nets, a \in SampleAddrs :
        /\ call' = [op |-> "Network.contains", net |-> net, a |-> a]
        /\ result' = NetworkContains(net, a)
    /\ UNCHANGED <<it, yielded, nexts>>

\* net[k]
NetworkAddressAt ==
    /\ Idle
    /\ \E net \in Nets, k \in Indexes :
        /\ call' = [op |-> "Network.addressAt", net |-> net, k |-> k]
        /\ result' = NetworkGetItem(net, k)
    /\ UNCHANGED <<it, yielded, nexts>>

\* iter(net)
NetworkIterate ==
    /\ Idle
    /\ \E net \in IterNets :
        /\ call' = [op |-> "Network.iterate", net |-> net]
        /\ result' = Ok(<<>>)
        /\ it' = NetworkIter(net)
    /\ UNCHANGED <<yielded, nexts>>

\* iter(net[start:stop:step])
NetworkSlice ==
    /\ Idle
    /\ \E net \in IterNets :
        \E start \in SliceBounds(net), stop \in SliceBounds(net), step \in SliceSteps :
            LET r == NetworkIterableIter(net, [start |-> start, stop |-> stop, step |-> step])
            IN  /\ call' = [op |-> "Network.slice", net |-> net,
                            start |-> start, stop |-> stop, step |-> step]
                /\ result' = IF r.ok THEN Ok(<<>>) ELSE r
                /\ it' = IF r.ok THEN r.val ELSE NoIterator
    /\ UNCHANGED <<yielded, nexts>>

\* next(it)
IteratorAdvance ==
    /\ it # NoIterator
    /\ nexts < MaxNexts
    /\ LET r == IteratorNext(it)
       IN  /\ it' = r.self
           /\ result' = r.out
           /\ yielded' = IF r.out.ok THEN Append(yielded, r.out.val) ELSE yielded
    /\ nexts' = nexts + 1
    /\ UNCHANGED call

Next ==
    \/ AddressParse
    \/ NetworkParse
    \/ AddressAddCall
    \/ AddressSubCall
    \/ AddressFormatCall
    \/ ParseThenFormat
    \/ FormatThenParse
    \/ NetworkContainsCall
    \/ NetworkAddressAt
    \/ NetworkIterate
    \/ NetworkSlice
    \/ IteratorAdvance

Spec == Init /\ [][Next]_vars

----------------------------------------------------------------------------
(* Properties                                                              *)

\* x is a 128-bit unsigned value
In128(x) == ~x.neg /\ Len(x.mag) <= 8

\* the number of addresses of a network small enough to count
HostCount(net) == 2 ^ (128 - net.prefix_len)

\* the tokens of a text, in order
RECURSIVE TokensFrom(_, _)
TokensFrom(addr, pos) ==
    LET tok == ADDR_TOKEN_PATTERN(addr, pos)
    IN  IF tok.kind = "none" THEN <<>>
        ELSE <<tok>> \o TokensFrom(addr, tok.end)

TokenList(addr) == TokensFrom(addr, 1)

\* the yielded addresses are base, base + 1, ... in this order
AscendingFrom(base, seq) ==
    \A i \in 1..Len(seq) : seq[i] = IntAdd(base, Z(i - 1))

IterationRunsToTheEnd(net) ==
    /\ AscendingFrom(net.addr, yielded)
    /\ (nexts >= 1 /\ nexts <= HostCount(net)) =>
            (result.ok /\ Len(yielded) = nexts /\ result.val = yielded[nexts])
    /\ nexts > HostCount(net) =>
            (result = Raise("StopIteration", "") /\ Len(yielded) = HostCount(net))

\* C1 as stated: for every network, whatever its base address, advancing
\* iterate() yields base_address, base_address + 1, ... , exactly host_count
\* addresses, and the advance after the last one signals exhaustion
C1_IterateEveryNetwork ==
    call.op = "Network.iterate" => IterationRunsToTheEnd(call.net)

\* C1 amended: the same for every network whose last address
\* base_address + host_count - 1 does not exceed 2^128 - 1
C1_IterateNetworkWithinRange ==
    (call.op = "Network.iterate"
        /\ In128(IntAdd(call.net.addr, Z(HostCount(call.net) - 1))))
    => IterationRunsToTheEnd(call.net)

C1_Witness ==
    /\ call.op = "Network.iterate"
    /\ call.net.prefix_len = 126
    /\ call.net.addr = IntSub(AddrMax, Z(3))
    /\ nexts = 5
    /\ result.exc = "StopIteration"
    /\ Len(yielded) = 4
    /\ yielded[4] = AddrMax

\* the base address has all host bits zero
HostBitsZero(net) ==
    IntShl(IntShr(net.addr, 128 - net.prefix_len), 128 - net.prefix_len) = net.addr

\* C2: for a network whose base has all host bits zero, contains(a) is true
\* exactly when a agrees with base_address on the top prefix_len bits, that is
\* when base_address <= a <= base_address + host_count - 1
C2_ContainsIffPrefixAgrees ==
    (call.op = "Network.contains" /\ HostBitsZero(call.net)) =>
        /\ result = Ok(IntShr(call.a, 128 - call.net.prefix_len)
                        = IntShr(call.net.addr, 128 - call.net.prefix_len))
        /\ result = Ok(IntLe(call.net.addr, call.a)
                        /\ IntLt(call.a, IntAdd(call.net.addr,
                                                Pow2Int(128 - call.net.prefix_len))))

\* C3: addressAt(k) returns base_address + k when 0 <= k <= host_count - 1
\* and fails with IndexOutOfRange for every other k
C3_AddressAtChecksRange ==
    call.op = "Network.addressAt" =>
        IF IntLe(Z(0), call.k) /\ IntLt(call.k, Pow2Int(128 - call.net.prefix_len))
        THEN result = Ok(IntAdd(call.net.addr, call.k))
        ELSE result.exc = "IndexError"

\* C4: a.add(d) returns a + d when 0 <= a + d <= 2^128 - 1 and fails with
\* OutOfRange otherwise, never wrapping; a.subtract(d) is a.add(-d)
C4_ArithmeticRangeChecked ==
    call.op \in {"Address.add", "Address.subtract"} =>
        LET sum == IF call.op = "Address.add" THEN IntAdd(call.a, call.d)
                   ELSE IntAdd(call.a, IntNeg(call.d))
        IN  IF In128(sum) THEN result = Ok(sum)
            ELSE result = Raise("ValueError", "address out of range")

C4_Witness ==
    /\ call.op = "Address.add"
    /\ call.a = AddrMax
    /\ call.d = Z(1)
    /\ result = Raise("ValueError", "address out of range")

\* the texts of the hex groups before the first '::' and of those after it
RECURSIVE SelectNums(_)
SelectNums(toks) ==
    IF toks = <<>> THEN <<>>
    ELSE IF Head(toks).kind = "num" THEN <<Head(toks).text>> \o SelectNums(Tail(toks))
    ELSE SelectNums(Tail(toks))

FirstSkip(toks) ==
    IF \E i \in 1..Len(toks) : toks[i].kind = "skip"
    THEN CHOOSE i \in 1..Len(toks) :
            toks[i].kind = "skip" /\ \A j \in 1..(i - 1) : toks[j].kind # "skip"
    ELSE Len(toks) + 1

GroupsBefore(toks) == SelectNums(SubSeq(toks, 1, FirstSkip(toks) - 1))
GroupsAfter(toks) == SelectNums(SubSeq(toks, FirstSkip(toks) + 1, Len(toks)))

\* C5: an accepted text with groups g1..gh before the '::' and k1..kl after
\* it has g1..gh in the h most significant lanes, k1..kl in the l least
\* significant lanes and zero between, no lane holding two groups
C5_GroupsKeepTheirLanes ==
    (call.op = "Address.parse" /\ result.ok) =>
        LET pre == GroupsBefore(TokenList(call.text))
            post == GroupsAfter(TokenList(call.text))
            h == Len(pre)
            l == Len(post)
            lanes == Hextets(result.val)
        IN  /\ h <= 8 /\ l <= 8
            /\ \A i \in 1..h : lanes[i] = IntBase16(pre[i])
            /\ \A j \in 1..l : lanes[8 - l + j] = IntBase16(post[j])
            /\ \A i \in (h + 1)..(8 - l) : lanes[i] = 0

\* the tokens C6 is about: a '::' after an earlier '::', a hex group of more
\* than 4 characters
IsRepeatedSkip(toks, i) ==
    toks[i].kind = "skip" /\ \E j \in 1..(i - 1) : toks[j].kind = "skip"
IsLongGroup(toks, i) == toks[i].kind = "num" /\ Len(toks[i].text) > 4
Offenders(toks) ==
    {i \in 1..Len(toks) : IsRepeatedSkip(toks, i) \/ IsLongGroup(toks, i)}
FirstOffender(toks) ==
    CHOOSE i \in Offenders(toks) : \A j \in Offenders(toks) : i <= j

\* a token before position i draws a failure of another kind: a prefix length
\* (whatever follows it is rejected), an unrecognized token, a group that is
\* no base 16 literal, a ninth group with no '::' before it
OtherFaultBefore(toks, i) ==
    \E j \in 1..(i - 1) :
        \/ toks[j].kind \in {"prefixlen", "unknown"}
        \/ /\ toks[j].kind = "num"
           /\ ~IsBase16Literal(toks[j].text)
        \/ /\ toks[j].kind = "num"
           /\ \A q \in 1..(j - 1) : toks[q].kind # "skip"
           /\ Cardinality({q \in 1..(j - 1) : toks[q].kind = "num"}) >= 8

\* C6: a text with a second '::' or a hex group longer than 4 characters
\* yields no Address, and when such a token is the first offending one the
\* failure reported is the one for it
C6_RepeatedSkipAndLongGroupRejected ==
    (call.op = "Address.parse" /\ Offenders(TokenList(call.text)) # {}) =>
        LET toks == TokenList(call.text)
            i == FirstOffender(toks)
        IN  /\ ~result.ok
            /\ ~OtherFaultBefore(toks, i) =>
                result = Raise("ValueError",
                               IF IsLongGroup(toks, i)
                               THEN "hextet must be 4 digits or less"
                               ELSE "address can only have one '::'")

C6_Witness ==
    /\ call.op = "Address.parse"
    /\ call.text = <<":", ":", ":", ":", "a", "b", "c", "d", "e">>
    /\ result = Raise("ValueError", "address can only have one '::'")

\* the groups gs in hex, padded to 4 digits or trimmed, ":" between
RECURSIVE JoinHextets(_, _)
JoinHextets(gs, pad) ==
    IF gs = <<>> THEN <<>>
    ELSE (IF pad = "PAD" THEN HexText04(gs[1]) ELSE HexText(gs[1]))
         \o (IF Len(gs) = 1 THEN <<>> ELSE <<":">> \o JoinHextets(Tail(gs), pad))

\* the maximal runs <<first, last>> of zero hextets
ZeroRuns(h) ==
    {r \in (1..8) \X (1..8) :
        /\ r[1] <= r[2]
        /\ \A i \in r[1]..r[2] : h[i] = 0
        /\ (r[1] = 1 \/ h[r[1] - 1] # 0)
        /\ (r[2] = 8 \/ h[r[2] + 1] # 0)}

\* the longest of them, the leftmost of the longest
LongestZeroRun(h) ==
    CHOOSE r \in ZeroRuns(h) :
        \A q \in ZeroRuns(h) :
            \/ r[2] - r[1] > q[2] - q[1]
            \/ (r[2] - r[1] = q[2] - q[1] /\ r[1] <= q[1])

\* the text with '::' in place of the leftmost longest zero run
CompressedText(h, pad) ==
    IF ZeroRuns(h) = {} THEN JoinHextets(h, pad)
    ELSE LET r == LongestZeroRun(h)
         IN  JoinHextets(SubSeq(h, 1, r[1] - 1), pad)
             \o <<":", ":">>
             \o JoinHextets(SubSeq(h, r[2] + 1, 8), pad)

\* C7: in compress mode an address with a zero hextet is written with one
\* '::' in place of its leftmost longest run of zero hextets, of whatever
\* length and position; an address without zero hextets is written without
C7_CompressLongestZeroRun ==
    (call.op = "Address.format" /\ result.ok
        /\ parse_format_spec(call.spec).val.compress = "COMPRESS") =>
        result.val = CompressedText(Hextets(call.a),
                                    parse_format_spec(call.spec).val.pad)

\* a valid text that is the canonical rendering of its address
IsCanonicalText(text) ==
    LET a == AddressOfStr(text)
    IN  a.ok /\ text = CompressedText(Hextets(a.val), "TRIM")

\* C8: parse(s).format(short) = s for every canonical-form string s
C8_CanonicalRoundTrip ==
    (call.op = "Address.parse.format" /\ IsCanonicalText(call.text)) =>
        result = Ok(call.text)

\* the window of a slice, as absolute values
WindowStart(c) ==
    IF c.start.kind = "int" THEN IntAdd(c.net.addr, c.start.val)
    ELSE IF c.start.kind = "Address" THEN c.start.val
    ELSE c.net.addr
WindowStop(c) ==
    IF c.stop.kind = "int" THEN IntAdd(c.net.addr, c.stop.val)
    ELSE IF c.stop.kind = "Address" THEN c.stop.val
    ELSE IntAdd(c.net.addr, Z(HostCount(c.net)))

\* what the slice with step +s yields: start, start + s, ... below stop
ForwardSlice(c, s) ==
    LET width == IntVal(IntSub(WindowStop(c), WindowStart(c)))
        n == IF width <= 0 THEN 0 ELSE (width + s - 1) \div s
    IN  [i \in 1..n |-> IntAdd(WindowStart(c), Z((i - 1) * s))]

Reversed(seq) == [i \in 1..Len(seq) |-> seq[Len(seq) + 1 - i]]

\* C9: a slice with step -s yields what the slice with step +s yields, in
\* reverse order, and then signals exhaustion
C9_NegativeStepReverses ==
    (call.op = "Network.slice" /\ call.step.kind = "int"
        /\ IntLt(call.step.val, Z(0)) /\ nexts >= 1) =>
        LET expected == Reversed(ForwardSlice(call, 0 - IntVal(call.step.val)))
        IN  IF nexts <= Len(expected)
            THEN result = Ok(expected[nexts])
            ELSE result = Raise("StopIteration", "") /\ yielded = expected

\* C10: Address.parse fails on every text with a /digits prefix-length token
C10_AddressParseRejectsPrefix ==
    (call.op = "Address.parse"
        /\ \E i \in 1..Len(TokenList(call.text)) :
                TokenList(call.text)[i].kind = "prefixlen")
    => ~result.ok

\* C11: formatting is lossless: for every address a and each of the four
\* format modes (compress or expand, with pad or trim), parsing the formatted
\* text gives a back
C11_FormatThenParseIsIdentity ==
    (call.op = "Address.format.parse" /\ parse_format_spec(call.spec).ok) =>
        result = Ok(call.a)

C11_Witness ==
    /\ call.op = "Address.format.parse"
    /\ call.a = IntOfHextets(<<43981, 0, 0, 16, 0, 0, 0, 256>>)
    /\ call.spec = <<"p", "c">>
    /\ AddressFormat(call.a, call.spec).val =
            <<"a", "b", "c", "d", ":", "0", "0", "0", "0", ":", "0", "0", "0", "0", ":",
              "0", "0", "1", "0", ":", ":", "0", "1", "0", "0">>
    /\ result = Ok(call.a)

====
